---- MODULE Spec2Model ----
(***************************************************************************)
(* WeatherCast: the data access layer (api.ts: WeatherAPI, its two caches  *)
(* and its two pending-request tables) and the state container (store.ts:  *)
(* useWeatherStore).                                                       *)
(*                                                                         *)
(* JavaScript runs one task at a time.  A call of fetchWeatherData or      *)
(* searchCities runs to its first await without interruption, and the      *)
(* settlement of a request promise runs its reactions (the .then callback  *)
(* that writes the cache, the creator's catch block that deletes the       *)
(* pending entry) in one microtask checkpoint, before any other task.      *)
(* Each of these is therefore one atomic action.  An action of the state   *)
(* container is synchronous, and one atomic action too.                    *)
(***************************************************************************)
EXTENDS Integers, Sequences, FiniteSets, TLC

VARIABLES
    weatherCache,            \* Map<string, {data, timestamp}>
    cityCache,               \* Map<string, {data, timestamp}>
    pendingWeatherRequests,  \* Map<string, Promise<WeatherData>>, a promise is a request id
    pendingCityRequests,     \* Map<string, Promise<City[]>>
    requests,                \* the request promises ever created, by id
    calls,                   \* the calls of fetchWeatherData / searchCities ever made
    aborted,                 \* the calls whose AbortSignal has been triggered
    now,                     \* Date.now()
    ticks,                   \* how often the clock has advanced
    store,                   \* the state of useWeatherStore: its twelve data fields
    lastAction               \* the store action called last

vars == <<weatherCache, cityCache, pendingWeatherRequests, pendingCityRequests,
          requests, calls, aborted, now, ticks, store, lastAction>>

\* The variables of the data access layer and those of the state container.
apiVars == <<weatherCache, cityCache, pendingWeatherRequests, pendingCityRequests,
             requests, calls, aborted, now, ticks>>
storeVars == <<store, lastAction>>

---------------------------------------------------------------------------
\* Bounds of the model.

MaxCalls == 2
MaxTicks == 1

\* const CACHE_DURATION = 5 * 60 * 1000
CACHE_DURATION == 5 * 60 * 1000

\* The clock advances by one millisecond less or one millisecond more than the
\* cache duration, so that an entry is seen just before and just after it expires.
TickSteps == {CACHE_DURATION - 1, CACHE_DURATION + 1}

\* The coordinates and the queries the callers pass.
Coords == {<<12, 77>>}
Queries == {<<"P", "a">>, <<"P", "a", " ">>, <<"P", "a", "r">>,
            <<"P", "a", "r", " ">>}

---------------------------------------------------------------------------
\* Strings are sequences of characters.

Digit(d) == CASE d = 0 -> "0" [] d = 1 -> "1" [] d = 2 -> "2" [] d = 3 -> "3"
              [] d = 4 -> "4" [] d = 5 -> "5" [] d = 6 -> "6" [] d = 7 -> "7"
              [] d = 8 -> "8" [] d = 9 -> "9"

RECURSIVE NatToStr(_)
NatToStr(n) == IF n < 10 THEN <<Digit(n)>>
               ELSE NatToStr(n \div 10) \o <<Digit(n % 10)>>

\* `${n}` of a template literal, for an integer n
NumToStr(n) == IF n < 0 THEN <<"-">> \o NatToStr(0 - n) ELSE NatToStr(n)

\* String.prototype.includes
Includes(s, p) ==
    \E i \in 0..(Len(s) - Len(p)) : SubSeq(s, i + 1, i + Len(p)) = p

IsSpace(ch) == ch = " "

\* String.prototype.trim
RECURSIVE TrimStart(_)
TrimStart(s) == IF s # <<>> /\ IsSpace(Head(s)) THEN TrimStart(Tail(s)) ELSE s

RECURSIVE TrimEnd(_)
TrimEnd(s) == IF s # <<>> /\ IsSpace(s[Len(s)]) THEN TrimEnd(SubSeq(s, 1, Len(s) - 1)) ELSE s

Trim(s) == TrimEnd(TrimStart(s))

\* const cacheKey = `weather-${lat}-${lon}`
WeatherKey(lat, lon) ==
    <<"w", "e", "a", "t", "h", "e", "r", "-">> \o NumToStr(lat) \o <<"-">> \o NumToStr(lon)

\* const cacheKey = `cities-${query}`
CityKey(query) == <<"c", "i", "t", "i", "e", "s", "-">> \o query

---------------------------------------------------------------------------
\* Map operations.

EmptyMap == <<>>
MapHas(m, k) == k \in DOMAIN m
\* A set that drops the other entries of the map.
MapSetAlone(m, k, v) == [x \in {k} |-> v]

MapSet(m, k, v) == [x \in (DOMAIN m) \cup {k} |-> IF x = k THEN v ELSE m[x]]
MapDelete(m, k) == [x \in (DOMAIN m) \ {k} |-> m[x]]

---------------------------------------------------------------------------
\* Errors.  An error value is what JavaScript code can observe of it.

NewError(message) ==
    [isError |-> TRUE, name |-> "Error", message |-> message,
     isAxiosError |-> FALSE, responseMessage |-> ""]

NoError ==
    [isError |-> FALSE, name |-> "", message |-> "",
     isAxiosError |-> FALSE, responseMessage |-> ""]

\* What this.api.get rejects with when the call fails: the provider answered with
\* a non-success status and a message, or there was no answer at all.
NetworkErrors ==
    { [isError |-> TRUE, name |-> "AxiosError", isAxiosError |-> TRUE,
       message |-> "Request failed with status code 404",
       responseMessage |-> "city not found"],
      [isError |-> TRUE, name |-> "AxiosError", isAxiosError |-> TRUE,
       message |-> "Network Error", responseMessage |-> ""] }

\* What this.api.get rejects with when its signal is triggered.  The value is
\* made by the HTTP client, not by this repository: a DOM-style AbortError, or
\* axios's own CanceledError, which is an AxiosError with the message "canceled".
AbortRejections ==
    { [isError |-> TRUE, name |-> "AbortError", isAxiosError |-> FALSE,
       message |-> "The operation was aborted", responseMessage |-> ""],
      [isError |-> TRUE, name |-> "CanceledError", isAxiosError |-> TRUE,
       message |-> "canceled", responseMessage |-> ""] }

\* What response.data.list.map(...) throws when the payload has no list.
MalformedPayloadError ==
    [isError |-> TRUE, name |-> "TypeError", isAxiosError |-> FALSE,
     message |-> "Cannot read properties of undefined", responseMessage |-> ""]

\* private handleError(error: unknown): Error
handleError(error) ==
    IF error.isError /\ error.name = "AbortError" THEN error
    ELSE IF error.isAxiosError THEN
        NewError(IF error.responseMessage # "" THEN error.responseMessage
                 ELSE IF error.message # "" THEN error.message
                 ELSE "API request failed")
    ELSE NewError("An unexpected error occurred")

---------------------------------------------------------------------------
\* Requests: the promise  Promise.all([...]).then(...)  of fetchWeatherData and
\* the promise  this.api.get('/find', ...).then(...)  of searchCities.

WeatherEndpoints == <<"/weather", "/forecast", "/air_pollution">>
CityEndpoints == <<"/find">>

\* A part of a WeatherData that is not there, and a WeatherData of no request.
MissingData == [req |-> 0, endpoint |-> "", lat |-> 0, lon |-> 0]

NoWeatherData ==
    [currentWeather |-> MissingData, forecast |-> MissingData, airPollution |-> MissingData]

NewWeatherRequest(cacheKey, lat, lon, sig) ==
    [kind |-> "weather", key |-> cacheKey, lat |-> lat, lon |-> lon, query |-> <<>>,
     signal |-> sig, subs |-> [i \in 1..Len(WeatherEndpoints) |-> "inflight"],
     state |-> "pending", error |-> NoError, data |-> NoWeatherData, cities |-> <<>>]

NewCityRequest(cacheKey, query, sig) ==
    [kind |-> "cities", key |-> cacheKey, lat |-> 0, lon |-> 0, query |-> query,
     signal |-> sig, subs |-> [i \in 1..Len(CityEndpoints) |-> "inflight"],
     state |-> "pending", error |-> NoError, data |-> NoWeatherData, cities |-> <<>>]

RequestIds == 1..Len(requests)

\* The body the provider answers sub-fetch i of weather request t with.  Two
\* requests are answered at different times, so their bodies differ.
ResponseData(t, i) ==
    [req |-> t, endpoint |-> WeatherEndpoints[i],
     lat |-> requests[t].lat, lon |-> requests[t].lon]

\* What the .then callback of Promise.all reads of sub-fetch i.
PartOf(t, subs, i) == IF subs[i] = "ok" THEN ResponseData(t, i) ELSE MissingData

\* const data: WeatherData = { currentWeather: ..., forecast: ..., airPollution: ... }
AssembleWeatherData(t, subs) ==
    [currentWeather |-> PartOf(t, subs, 1),
     forecast |-> PartOf(t, subs, 2),
     airPollution |-> PartOf(t, subs, 3)]

\* response.data.list of the /find call: the provider's candidates for a query.
ProviderCityList(query) ==
    << [name |-> query, sys |-> [country |-> "FR"], coord |-> [lat |-> 48, lon |-> 2],
        id |-> 1] >>

\* response.data.list.map(city => ({ name, country, lat, lon }))
MapCities(list) ==
    [i \in 1..Len(list) |->
        [name |-> list[i].name, country |-> list[i].sys.country,
         lat |-> list[i].coord.lat, lon |-> list[i].coord.lon]]

\* Promise.all taken to be fulfilled at the first sub-fetch that is.
AnyFulfilled(subs) == \E i \in DOMAIN subs : subs[i] = "ok"

\* Promise.all is fulfilled once every sub-fetch is.
AllFulfilled(subs) == \A i \in DOMAIN subs : subs[i] = "ok"

\* The cache check with an entry expiring one millisecond early.
CacheHitExpiresEarly(cache, cacheKey, time) ==
    MapHas(cache, cacheKey) /\ time - cache[cacheKey].timestamp < CACHE_DURATION - 1

\* cached && Date.now() - cached.timestamp < CACHE_DURATION
CacheHit(cache, cacheKey, time) ==
    MapHas(cache, cacheKey) /\ time - cache[cacheKey].timestamp < CACHE_DURATION

\* The pending check left out: every cache miss starts a request.
HasPendingNever(pending, cacheKey) == FALSE

\* pendingWeatherRequests.has(cacheKey) / pendingCityRequests.has(cacheKey)
HasPending(pending, cacheKey) == MapHas(pending, cacheKey)

\* What a call finds in the cache when it starts: no entry ("none"), an entry
\* written less than CACHE_DURATION ago ("live"), or an older one ("expired").
\* It is recorded with the call and decides nothing.
Seen(cache, cacheKey) ==
    IF cacheKey \notin DOMAIN cache THEN "none"
    ELSE IF now < cache[cacheKey].timestamp + CACHE_DURATION THEN "live"
    ELSE "expired"

---------------------------------------------------------------------------
\* Calls.  Every call passes an AbortSignal of its own, the signal of call c
\* being c; a call that passes none is a call whose signal is never triggered.
\* A call is served from the cache (req = 0, value is what it returns),
\* or it returns the promise of a pending request (req, created = FALSE), or it
\* awaits the request it has created itself (req, created = TRUE).

CallIds == 1..Len(calls)

\* The earlier calls for the same key that have not settled when a call starts.
\* It is recorded with the call and decides nothing.
Overlaps(cacheKey) ==
    {c \in CallIds : calls[c].key = cacheKey /\ calls[c].req # 0
                     /\ requests[calls[c].req].state = "pending"}

WeatherCall(cacheKey, created, req, value) ==
    [kind |-> "weather", key |-> cacheKey, query |-> <<>>,
     seen |-> Seen(weatherCache, cacheKey), overlaps |-> Overlaps(cacheKey),
     created |-> created, req |-> req, value |-> value]

CityCall(cacheKey, query, created, req, value) ==
    [kind |-> "cities", key |-> cacheKey, query |-> query,
     seen |-> Seen(cityCache, cacheKey), overlaps |-> Overlaps(cacheKey),
     created |-> created, req |-> req, value |-> value]

\* "pending", "fulfilled" or "rejected": the state of the promise the call returned.
CallState(c) ==
    IF calls[c].req = 0 THEN "fulfilled" ELSE requests[calls[c].req].state

\* The error a rejected call rejects with.  The creator awaits the request in
\* try/catch and throws this.handleError(error); a caller that was handed the
\* pending promise gets that promise's own rejection.
CallError(c) ==
    IF calls[c].created THEN handleError(requests[calls[c].req].error)
    ELSE requests[calls[c].req].error

\* The value a fulfilled weather call returns.
WeatherCallValue(c) ==
    IF calls[c].req = 0 THEN calls[c].value ELSE requests[calls[c].req].data

\* The value a fulfilled city call returns.
CityCallValue(c) ==
    IF calls[c].req = 0 THEN calls[c].value ELSE requests[calls[c].req].cities

---------------------------------------------------------------------------
\* The state container.  null is the empty sequence and a value v that may be
\* null is <<v>>.  A coordinate is a whole number of 0.0000001 degrees, so that
\* the comparison of updateLocation is one of integers.

Null == <<>>

\* 0.000001 degrees
CoordinateTolerance == 10

\* import { DEFAULT_COORDINATES } from '@/constants'
DEFAULT_COORDINATES == [lat |-> 129000000, lon |-> 776000000]

\* The coordinates the callers pass: the default one, and others that are a
\* tenth of the tolerance, the tolerance and more than the tolerance away.
Latitudes == {129000000, 129000010, 129000011}
Longitudes == {776000000, 776000011}
StoreCoordinates == [lat : Latitudes, lon : Longitudes]

\* The other values the callers pass.
WeatherDataValues ==
    {Null,
     << [currentWeather |-> [lat |-> 12, lon |-> 77, req |-> 1, endpoint |-> "weather"],
         forecast |-> [lat |-> 12, lon |-> 77, req |-> 1, endpoint |-> "forecast"],
         airPollution |-> [lat |-> 12, lon |-> 77, req |-> 1,
                           endpoint |-> "air_pollution"]] >>}
ErrorValues == {Null, <<"Failed to fetch weather data">>}
SearchQueryValues == {<<>>, <<"P", "a", "r">>}
CitySuggestionValues == {<<>>, MapCities(ProviderCityList(<<"P", "a", "r">>))}

\* const initialState = { ... }
initialState ==
    [coordinates |-> DEFAULT_COORDINATES,
     weatherData |-> Null,
     unit |-> "metric",
     isLoading |-> FALSE,
     error |-> Null,
     showLocationDialog |-> TRUE,
     isManualSelection |-> FALSE,
     geolocationEnabled |-> FALSE,
     hasInitialLoad |-> FALSE,
     searchQuery |-> <<>>,
     citySuggestions |-> <<>>,
     isSearching |-> FALSE]

\* The action called last.  It is recorded for the properties and decides
\* nothing: the name of the action, the arguments of updateLocation (lat, lon)
\* and of handleLocationPermission (allow), and what the fields that the
\* actions of the location write held before the action.
Called(name, lat, lon, allow) ==
    [name |-> name, lat |-> lat, lon |-> lon, allow |-> allow,
     before |-> [coordinates |-> store.coordinates,
                 error |-> store.error,
                 searchQuery |-> store.searchQuery,
                 citySuggestions |-> store.citySuggestions]]

---------------------------------------------------------------------------
\* The state after the module is loaded: empty caches and tables, no call made.

Init ==
    /\ weatherCache = EmptyMap
    /\ cityCache = EmptyMap
    /\ pendingWeatherRequests = EmptyMap
    /\ pendingCityRequests = EmptyMap
    /\ requests = <<>>
    /\ calls = <<>>
    /\ aborted = {}
    /\ now = 0
    /\ ticks = 0
    /\ store = initialState
    /\ lastAction = Called("create", 0, 0, FALSE)

\* async fetchWeatherData(lat, lon, signal?)
fetchWeatherData(lat, lon) ==
    LET cacheKey == WeatherKey(lat, lon)
        t == Len(requests) + 1
    IN  /\ Len(calls) < MaxCalls
        /\ IF CacheHit(weatherCache, cacheKey, now) THEN
               /\ calls' = Append(calls, WeatherCall(cacheKey, FALSE, 0,
                                                     weatherCache[cacheKey].data))
               /\ UNCHANGED <<requests, pendingWeatherRequests>>
           ELSE IF HasPending(pendingWeatherRequests, cacheKey) THEN
               /\ calls' = Append(calls, WeatherCall(cacheKey, FALSE,
                                                     pendingWeatherRequests[cacheKey],
                                                     NoWeatherData))
               /\ UNCHANGED <<requests, pendingWeatherRequests>>
           ELSE
               /\ requests' = Append(requests,
                      NewWeatherRequest(cacheKey, lat, lon, Len(calls) + 1))
               /\ pendingWeatherRequests' = MapSet(pendingWeatherRequests, cacheKey, t)
               /\ calls' = Append(calls, WeatherCall(cacheKey, TRUE, t,
                                                     NoWeatherData))
        /\ UNCHANGED <<weatherCache, cityCache, pendingCityRequests, aborted, now, ticks>>
        /\ UNCHANGED storeVars

\* The floor without the trim of the query.
BelowMinimumLengthUntrimmed(query) == query = <<>> \/ Len(query) < 3

\* !query || query.trim().length < 3
BelowMinimumLength(query) == query = <<>> \/ Len(Trim(query)) < 3

\* async searchCities(query, signal?)
searchCities(query) ==
    LET cacheKey == CityKey(query)
        t == Len(requests) + 1
    IN  /\ Len(calls) < MaxCalls
        /\ IF BelowMinimumLength(query) THEN
               /\ calls' = Append(calls, CityCall(<<>>, query, FALSE, 0, <<>>))
               /\ UNCHANGED <<requests, pendingCityRequests>>
           ELSE IF CacheHit(cityCache, cacheKey, now) THEN
               /\ calls' = Append(calls, CityCall(cacheKey, query, FALSE, 0,
                                                  cityCache[cacheKey].data))
               /\ UNCHANGED <<requests, pendingCityRequests>>
           ELSE IF HasPending(pendingCityRequests, cacheKey) THEN
               /\ calls' = Append(calls, CityCall(cacheKey, query, FALSE,
                                                  pendingCityRequests[cacheKey], <<>>))
               /\ UNCHANGED <<requests, pendingCityRequests>>
           ELSE
               /\ requests' = Append(requests,
                      NewCityRequest(cacheKey, query, Len(calls) + 1))
               /\ pendingCityRequests' = MapSet(pendingCityRequests, cacheKey, t)
               /\ calls' = Append(calls, CityCall(cacheKey, query, TRUE, t, <<>>))
        /\ UNCHANGED <<weatherCache, cityCache, pendingWeatherRequests, aborted, now, ticks>>
        /\ UNCHANGED storeVars

\* The sub-fetches of a request that is rejected: how many had been answered is
\* kept, which ones is not.
DropSubFetches(subs) ==
    [i \in DOMAIN subs |->
        IF i <= Cardinality({j \in DOMAIN subs : subs[j] = "ok"})
        THEN "discarded" ELSE "dropped"]

\* The failure swallowed: the GETs are given up and the promise never settles.
RejectRequestNeverSettling(t, error) ==
    /\ requests' = [requests EXCEPT ![t].subs = [i \in DOMAIN @ |-> "dropped"]]
    /\ UNCHANGED <<pendingWeatherRequests, pendingCityRequests>>

\* The failure answered by issuing the GETs of the request again.
RejectRequestAndRetry(t, error) ==
    /\ requests' = [requests EXCEPT ![t].subs = [i \in DOMAIN @ |-> "inflight"]]
    /\ UNCHANGED <<pendingWeatherRequests, pendingCityRequests>>

\* The rejection without the catch block's delete.
RejectRequestKeepingEntry(t, error) ==
    /\ requests' = [requests EXCEPT ![t].subs = DropSubFetches(@),
                                    ![t].state = "rejected",
                                    ![t].error = error]
    /\ UNCHANGED <<pendingWeatherRequests, pendingCityRequests>>

\* The request promise rejects with `error`; the first reaction to run is the
\* catch block of the call that created it:
\*     pendingWeatherRequests.delete(cacheKey)  /  pendingCityRequests.delete(cacheKey)
\* Nothing reads the outcome of a GET of a rejected request any more (the ones
\* still in flight go on): the answered ones are recorded as "discarded", the
\* others as "dropped".
RejectRequest(t, error) ==
    /\ requests' = [requests EXCEPT ![t].subs = DropSubFetches(@),
                                    ![t].state = "rejected",
                                    ![t].error = error]
    /\ IF requests[t].kind = "weather" THEN
           /\ pendingWeatherRequests' = MapDelete(pendingWeatherRequests, requests[t].key)
           /\ UNCHANGED pendingCityRequests
       ELSE
           /\ pendingCityRequests' = MapDelete(pendingCityRequests, requests[t].key)
           /\ UNCHANGED pendingWeatherRequests

\* One of the three GETs of a weather request is answered.  When it is the last
\* one, Promise.all is fulfilled and the .then callback assembles the data and
\* caches it.
WeatherSubFetchFulfilled(t, i) ==
    /\ t \in RequestIds
    /\ requests[t].kind = "weather"
    /\ requests[t].state = "pending"
    /\ i \in DOMAIN requests[t].subs
    /\ requests[t].subs[i] = "inflight"
    /\ LET subs == [requests[t].subs EXCEPT ![i] = "ok"]
           data == AssembleWeatherData(t, subs)
       IN  IF AllFulfilled(subs) THEN
               /\ weatherCache' = MapSet(weatherCache, requests[t].key,
                                         [data |-> data, timestamp |-> now])
               /\ requests' = [requests EXCEPT ![t].subs = subs,
                                               ![t].state = "fulfilled",
                                               ![t].data = data]
           ELSE
               /\ requests' = [requests EXCEPT ![t].subs = subs]
               /\ UNCHANGED weatherCache
    /\ UNCHANGED <<cityCache, pendingWeatherRequests, pendingCityRequests, calls,
                   aborted, now, ticks>>
    /\ UNCHANGED storeVars

\* The /find GET of a city request is answered with a list; the .then callback
\* maps the list and caches it.
CitySearchFulfilled(t) ==
    /\ t \in RequestIds
    /\ requests[t].kind = "cities"
    /\ requests[t].state = "pending"
    /\ LET cities == MapCities(ProviderCityList(requests[t].query))
       IN  /\ cityCache' = MapSet(cityCache, requests[t].key,
                                  [data |-> cities, timestamp |-> now])
           /\ requests' = [requests EXCEPT ![t].subs = [i \in DOMAIN @ |-> "ok"],
                                           ![t].state = "fulfilled",
                                           ![t].cities = cities]
    /\ UNCHANGED <<weatherCache, pendingWeatherRequests, pendingCityRequests, calls,
                   aborted, now, ticks>>
    /\ UNCHANGED storeVars

\* The /find GET is answered with a body that has no list: the .then callback throws.
CitySearchMalformed(t) ==
    /\ t \in RequestIds
    /\ requests[t].kind = "cities"
    /\ requests[t].state = "pending"
    /\ RejectRequest(t, MalformedPayloadError)
    /\ UNCHANGED <<weatherCache, cityCache, calls, aborted, now, ticks>>
    /\ UNCHANGED storeVars

\* One GET of a request fails: Promise.all (or the single GET) rejects at once.
SubFetchRejected(t, i, error) ==
    /\ t \in RequestIds
    /\ requests[t].state = "pending"
    /\ i \in DOMAIN requests[t].subs
    /\ requests[t].subs[i] = "inflight"
    /\ RejectRequest(t, error)
    /\ UNCHANGED <<weatherCache, cityCache, calls, aborted, now, ticks>>
    /\ UNCHANGED storeVars

\* The caller of call c triggers the AbortSignal it passed.  Only the signal of
\* the call that created a request was handed to this.api.get; every GET of that
\* request that is still in flight rejects.
Abort(c) ==
    /\ c \in CallIds
    /\ c \notin aborted
    /\ CallState(c) = "pending"
    /\ aborted' = aborted \cup {c}
    /\ IF calls[c].created THEN
           \E error \in AbortRejections :
               RejectRequest(calls[c].req, error)
       ELSE UNCHANGED <<requests, pendingWeatherRequests, pendingCityRequests>>
    /\ UNCHANGED <<weatherCache, cityCache, calls, now, ticks>>
    /\ UNCHANGED storeVars

\* clearCache that leaves the pending tables.
clearCacheKeepingPending ==
    /\ weatherCache' = EmptyMap
    /\ cityCache' = EmptyMap
    /\ UNCHANGED <<pendingWeatherRequests, pendingCityRequests>>
    /\ UNCHANGED <<requests, calls, aborted, now, ticks>>
    /\ UNCHANGED storeVars

\* clearCache(): void
clearCache ==
    /\ weatherCache' = EmptyMap
    /\ cityCache' = EmptyMap
    /\ pendingWeatherRequests' = EmptyMap
    /\ pendingCityRequests' = EmptyMap
    /\ UNCHANGED <<requests, calls, aborted, now, ticks>>
    /\ UNCHANGED storeVars

\* The deletion of every key, whatever the pattern.
DeleteEvery(cache, pattern) == EmptyMap

\* for (const key of cache.keys()) if (key.includes(pattern)) cache.delete(key)
DeleteMatching(cache, pattern) ==
    [k \in {x \in DOMAIN cache : ~Includes(x, pattern)} |-> cache[k]]

\* clearCacheByPattern(pattern: string): void
clearCacheByPattern(pattern) ==
    /\ weatherCache' = DeleteMatching(weatherCache, pattern)
    /\ cityCache' = DeleteMatching(cityCache, pattern)
    /\ UNCHANGED <<pendingWeatherRequests, pendingCityRequests, requests, calls,
                   aborted, now, ticks>>
    /\ UNCHANGED storeVars

\* The patterns the callers pass to clearCacheByPattern.
Patterns == {<<"w", "e", "a", "t", "h", "e", "r">>, <<"c", "i", "t", "i", "e", "s">>,
             <<"r", " ">>}

\* Time passes.  The clock is read only to stamp a cache entry and to take the
\* age of one, so it is let advance only once there is an entry.
Tick(d) ==
    /\ ticks < MaxTicks
    /\ weatherCache # EmptyMap \/ cityCache # EmptyMap
    /\ now' = now + d
    /\ ticks' = ticks + 1
    /\ UNCHANGED <<weatherCache, cityCache, pendingWeatherRequests, pendingCityRequests,
                   requests, calls, aborted>>
    /\ UNCHANGED storeVars

Next ==
    \/ \E co \in Coords : fetchWeatherData(co[1], co[2])
    \/ \E query \in Queries : searchCities(query)
    \/ \E t \in RequestIds, i \in 1..3 : WeatherSubFetchFulfilled(t, i)
    \/ \E t \in RequestIds : CitySearchFulfilled(t)
    \/ \E t \in RequestIds : CitySearchMalformed(t)
    \/ \E t \in RequestIds, i \in 1..3, error \in NetworkErrors : SubFetchRejected(t, i, error)
    \/ \E c \in CallIds : Abort(c)
    \/ clearCache
    \/ \E pattern \in Patterns : clearCacheByPattern(pattern)
    \/ \E d \in TickSteps : Tick(d)

Spec == Init /\ [][Next]_vars

\* The runs in which clearCache() is not called.
NextWithoutClearCache ==
    \/ \E co \in Coords : fetchWeatherData(co[1], co[2])
    \/ \E query \in Queries : searchCities(query)
    \/ \E t \in RequestIds, i \in 1..3 : WeatherSubFetchFulfilled(t, i)
    \/ \E t \in RequestIds : CitySearchFulfilled(t)
    \/ \E t \in RequestIds : CitySearchMalformed(t)
    \/ \E t \in RequestIds, i \in 1..3, error \in NetworkErrors : SubFetchRejected(t, i, error)
    \/ \E c \in CallIds : Abort(c)
    \/ \E pattern \in Patterns : clearCacheByPattern(pattern)
    \/ \E d \in TickSteps : Tick(d)

SpecWithoutClearCache == Init /\ [][NextWithoutClearCache]_vars

\* A GET of request t is answered or fails.
SubFetchSettles(t) ==
    \/ \E i \in 1..3 : WeatherSubFetchFulfilled(t, i)
    \/ CitySearchFulfilled(t)
    \/ CitySearchMalformed(t)
    \/ \E i \in 1..3, error \in NetworkErrors : SubFetchRejected(t, i, error)

\* The runs of calls for one coordinate and one query while the clock stands
\* still, in which every GET that is in flight is eventually answered or fails.
OneQuery == {<<"P", "a", "r">>}

NextLive ==
    \/ \E co \in Coords : fetchWeatherData(co[1], co[2])
    \/ \E query \in OneQuery : searchCities(query)
    \/ \E t \in RequestIds, i \in 1..3 : WeatherSubFetchFulfilled(t, i)
    \/ \E t \in RequestIds : CitySearchFulfilled(t)
    \/ \E t \in RequestIds : CitySearchMalformed(t)
    \/ \E t \in RequestIds, i \in 1..3, error \in NetworkErrors : SubFetchRejected(t, i, error)
    \/ \E c \in CallIds : Abort(c)
    \/ clearCache
    \/ \E pattern \in Patterns : clearCacheByPattern(pattern)

FairSpec ==
    Init /\ [][NextLive]_vars /\ \A t \in 1..MaxCalls : WF_vars(SubFetchSettles(t))

\* The runs of calls for two coordinates and two queries and of their requests,
\* in which nothing is cleared and the clock stands still.
TwoCoords == {<<12, 77>>, <<13, 77>>}
TwoQueries == {<<"P", "a", "r">>, <<"P", "a", "r", " ">>}

NextTwoKeys ==
    \/ \E co \in TwoCoords : fetchWeatherData(co[1], co[2])
    \/ \E query \in TwoQueries : searchCities(query)
    \/ \E t \in RequestIds, i \in 1..3 : WeatherSubFetchFulfilled(t, i)
    \/ \E t \in RequestIds : CitySearchFulfilled(t)
    \/ \E t \in RequestIds : CitySearchMalformed(t)
    \/ \E t \in RequestIds, i \in 1..3, error \in NetworkErrors : SubFetchRejected(t, i, error)
    \/ \E c \in CallIds : Abort(c)

SpecTwoKeys == Init /\ [][NextTwoKeys]_vars

---------------------------------------------------------------------------
\* The actions of the state container.  None of them touches the data access
\* layer.

\* set(partial): zustand merges the partial state into the state.
set(partial) == store' = partial @@ store

\* The simple setters.
setCoordinates(coords) ==
    /\ set([coordinates |-> coords])
    /\ lastAction' = Called("setCoordinates", 0, 0, FALSE)
    /\ UNCHANGED apiVars

setWeatherData(data) ==
    /\ set([weatherData |-> data])
    /\ lastAction' = Called("setWeatherData", 0, 0, FALSE)
    /\ UNCHANGED apiVars

setLoading(loading) ==
    /\ set([isLoading |-> loading])
    /\ lastAction' = Called("setLoading", 0, 0, FALSE)
    /\ UNCHANGED apiVars

setError(error) ==
    /\ set([error |-> error])
    /\ lastAction' = Called("setError", 0, 0, FALSE)
    /\ UNCHANGED apiVars

setLocationDialog(show) ==
    /\ set([showLocationDialog |-> show])
    /\ lastAction' = Called("setLocationDialog", 0, 0, FALSE)
    /\ UNCHANGED apiVars

setManualSelection(manual) ==
    /\ set([isManualSelection |-> manual])
    /\ lastAction' = Called("setManualSelection", 0, 0, FALSE)
    /\ UNCHANGED apiVars

setGeolocationEnabled(enabled) ==
    /\ set([geolocationEnabled |-> enabled])
    /\ lastAction' = Called("setGeolocationEnabled", 0, 0, FALSE)
    /\ UNCHANGED apiVars

setInitialLoad(loaded) ==
    /\ set([hasInitialLoad |-> loaded])
    /\ lastAction' = Called("setInitialLoad", 0, 0, FALSE)
    /\ UNCHANGED apiVars

\* setSearchQuery that empties the suggestions with it.
setSearchQueryClearingSuggestions(query) ==
    /\ set([searchQuery |-> query, citySuggestions |-> <<>>])
    /\ lastAction' = Called("setSearchQuery", 0, 0, FALSE)
    /\ UNCHANGED apiVars

setSearchQuery(query) ==
    /\ set([searchQuery |-> query])
    /\ lastAction' = Called("setSearchQuery", 0, 0, FALSE)
    /\ UNCHANGED apiVars

setCitySuggestions(suggestions) ==
    /\ set([citySuggestions |-> suggestions])
    /\ lastAction' = Called("setCitySuggestions", 0, 0, FALSE)
    /\ UNCHANGED apiVars

setSearching(searching) ==
    /\ set([isSearching |-> searching])
    /\ lastAction' = Called("setSearching", 0, 0, FALSE)
    /\ UNCHANGED apiVars

Abs(x) == IF x < 0 THEN 0 - x ELSE x

\* Any difference counts.
CoordinatesDifferAtAll(current, lat, lon) == current.lat # lat \/ current.lon # lon

\* Only a difference on both axes counts.
CoordinatesDifferOnBothAxes(current, lat, lon) ==
    /\ Abs(current.lat - lat) > CoordinateTolerance
    /\ Abs(current.lon - lon) > CoordinateTolerance

\* Math.abs(current.lat - lat) > 0.000001 || Math.abs(current.lon - lon) > 0.000001
CoordinatesDiffer(current, lat, lon) ==
    \/ Abs(current.lat - lat) > CoordinateTolerance
    \/ Abs(current.lon - lon) > CoordinateTolerance

\* updateLocation that drops the weather data of the old coordinates.
updateLocationDroppingWeatherData(lat, lon) ==
    LET newCoords == [lat |-> lat, lon |-> lon]
        current == store.coordinates
    IN  /\ IF CoordinatesDiffer(current, lat, lon) THEN
               set([coordinates |-> newCoords,
                    weatherData |-> Null,
                    isManualSelection |-> TRUE,
                    geolocationEnabled |-> FALSE,
                    hasInitialLoad |-> TRUE,
                    error |-> Null])
           ELSE UNCHANGED store
        /\ lastAction' = Called("updateLocation", lat, lon, FALSE)
        /\ UNCHANGED apiVars

\* updateLocation: (lat, lon) => { ... }
updateLocation(lat, lon) ==
    LET newCoords == [lat |-> lat, lon |-> lon]
        current == store.coordinates
    IN  /\ IF CoordinatesDiffer(current, lat, lon) THEN
               set([coordinates |-> newCoords,
                    isManualSelection |-> TRUE,
                    geolocationEnabled |-> FALSE,
                    hasInitialLoad |-> TRUE,
                    error |-> Null])
           ELSE UNCHANGED store
        /\ lastAction' = Called("updateLocation", lat, lon, FALSE)
        /\ UNCHANGED apiVars

\* triggerCurrentLocation that leaves the suggestions.
triggerCurrentLocationKeepingSuggestions ==
    /\ set([isManualSelection |-> FALSE,
            geolocationEnabled |-> TRUE,
            hasInitialLoad |-> TRUE,
            searchQuery |-> <<>>,
            error |-> Null])
    /\ lastAction' = Called("triggerCurrentLocation", 0, 0, FALSE)
    /\ UNCHANGED apiVars

\* triggerCurrentLocation: () => { ... }
triggerCurrentLocation ==
    /\ set([isManualSelection |-> FALSE,
            geolocationEnabled |-> TRUE,
            hasInitialLoad |-> TRUE,
            searchQuery |-> <<>>,
            citySuggestions |-> <<>>,
            error |-> Null])
    /\ lastAction' = Called("triggerCurrentLocation", 0, 0, FALSE)
    /\ UNCHANGED apiVars

\* handleLocationPermission that keeps the coordinates whatever the answer.
handleLocationPermissionKeepingCoordinates(allow) ==
    /\ set([showLocationDialog |-> FALSE,
            geolocationEnabled |-> allow,
            isManualSelection |-> ~allow,
            hasInitialLoad |-> TRUE,
            coordinates |-> store.coordinates])
    /\ lastAction' = Called("handleLocationPermission", 0, 0, allow)
    /\ UNCHANGED apiVars

\* handleLocationPermission: (allow) => { ... }
handleLocationPermission(allow) ==
    /\ set([showLocationDialog |-> FALSE,
            geolocationEnabled |-> allow,
            isManualSelection |-> ~allow,
            hasInitialLoad |-> TRUE,
            coordinates |-> IF allow THEN store.coordinates ELSE DEFAULT_COORDINATES])
    /\ lastAction' = Called("handleLocationPermission", 0, 0, allow)
    /\ UNCHANGED apiVars

\* reset that restores the fields of the location only.
resetLocationOnly ==
    /\ set([coordinates |-> DEFAULT_COORDINATES,
            showLocationDialog |-> TRUE,
            isManualSelection |-> FALSE,
            geolocationEnabled |-> FALSE,
            hasInitialLoad |-> FALSE])
    /\ lastAction' = Called("reset", 0, 0, FALSE)
    /\ UNCHANGED apiVars

\* reset: () => set(initialState)
reset ==
    /\ set(initialState)
    /\ lastAction' = Called("reset", 0, 0, FALSE)
    /\ UNCHANGED apiVars

StoreNext ==
    \/ \E coords \in StoreCoordinates : setCoordinates(coords)
    \/ \E data \in WeatherDataValues : setWeatherData(data)
    \/ \E loading \in BOOLEAN : setLoading(loading)
    \/ \E error \in ErrorValues : setError(error)
    \/ \E show \in BOOLEAN : setLocationDialog(show)
    \/ \E manual \in BOOLEAN : setManualSelection(manual)
    \/ \E enabled \in BOOLEAN : setGeolocationEnabled(enabled)
    \/ \E loaded \in BOOLEAN : setInitialLoad(loaded)
    \/ \E query \in SearchQueryValues : setSearchQuery(query)
    \/ \E suggestions \in CitySuggestionValues : setCitySuggestions(suggestions)
    \/ \E searching \in BOOLEAN : setSearching(searching)
    \/ \E coords \in StoreCoordinates : updateLocation(coords.lat, coords.lon)
    \/ triggerCurrentLocation
    \/ \E allow \in BOOLEAN : handleLocationPermission(allow)
    \/ reset

StoreSpec == Init /\ [][StoreNext]_vars

---------------------------------------------------------------------------
\* Notions the properties below are stated with.

WeatherCalls == {c \in CallIds : calls[c].kind = "weather"}

\* The pending table and the cache a request belongs to.
PendingOf(kind) == IF kind = "weather" THEN pendingWeatherRequests ELSE pendingCityRequests
CacheOf(kind) == IF kind = "weather" THEN weatherCache ELSE cityCache

\* The requests whose promise has not settled: the network transactions in flight.
InFlight == {t \in RequestIds : requests[t].state = "pending"}

\* The error kinds of the specification, as a caller can tell them apart: an
\* abort error, a generic Error with the fixed "unexpected" message, a generic
\* Error with the provider's or the transport's message.  Anything else is an
\* error object of the HTTP client that was not translated.
ErrorKind(error) ==
    IF error.name = "AbortError" THEN "Cancelled"
    ELSE IF error = NewError("An unexpected error occurred") THEN "Unexpected"
    ELSE IF error.name = "Error" THEN "TransportFailure"
    ELSE "Untranslated"

\* d is the snapshot of one fulfilled request for the key: its three parts are
\* the three answers that request got.
WholeSnapshot(d, cacheKey) ==
    \E t \in RequestIds :
        /\ requests[t].kind = "weather"
        /\ requests[t].key = cacheKey
        /\ requests[t].state = "fulfilled"
        /\ d.currentWeather = ResponseData(t, 1)
        /\ d.forecast = ResponseData(t, 2)
        /\ d.airPollution = ResponseData(t, 3)

---------------------------------------------------------------------------
\* C1: in every reachable state there is at most one request in flight (one
\* unsettled network transaction) per cache key, weather or city.
AtMostOneInFlightPerKey ==
    \A t1, t2 \in InFlight : requests[t1].key = requests[t2].key => t1 = t2

\* C2: a fetchWeatherData call that starts while an earlier call for the same
\* coordinate has not settled creates no request of its own, is given the request
\* of the earlier call, and once the earlier call has its snapshot it has the
\* identical one.
ConcurrentCallsCoalesce ==
    \A c2 \in WeatherCalls : \A c1 \in calls[c2].overlaps :
        /\ ~calls[c2].created
        /\ calls[c2].req = calls[c1].req
        /\ CallState(c2) = CallState(c1)
        /\ CallState(c1) = "fulfilled" => WeatherCallValue(c2) = WeatherCallValue(c1)

\* Two concurrent calls for one coordinate have both returned a snapshot.
ConcurrentCallsCoalesceWitness ==
    \E c2 \in WeatherCalls :
        calls[c2].overlaps # {} /\ CallState(c2) = "fulfilled"
        /\ WholeSnapshot(WeatherCallValue(c2), calls[c2].key)

\* C3: the step in which a request is fulfilled leaves no entry for its key in
\* its pending table and leaves its result in its cache.
PendingEntryRemovedOnSuccess ==
    [][\A t \in RequestIds :
          (requests[t].state = "pending" /\ requests'[t].state = "fulfilled") =>
              /\ ~MapHas(PendingOf(requests[t].kind)', requests[t].key)
              /\ MapHas(CacheOf(requests[t].kind)', requests[t].key)
              /\ CacheOf(requests[t].kind)'[requests[t].key].data =
                     (IF requests[t].kind = "weather" THEN requests'[t].data
                      ELSE requests'[t].cities)]_vars

\* C4: a fetchWeatherData call that finds a cache entry older than CACHE_DURATION
\* creates a new request (a fresh network transaction).
ExpiredEntryIsRefetched ==
    \A c \in WeatherCalls : calls[c].seen = "expired" => calls[c].created

\* C5: a fetchWeatherData call that finds a cache entry younger than
\* CACHE_DURATION issues no network transaction and is not handed a request: it
\* returns the cached snapshot, which is the whole snapshot of a fulfilled request.
LiveEntryIsServedFromCache ==
    \A c \in WeatherCalls :
        calls[c].seen = "live" =>
            /\ ~calls[c].created
            /\ calls[c].req = 0
            /\ WholeSnapshot(calls[c].value, calls[c].key)

\* A second call for a coordinate found the entry the first one had cached.
LiveEntryIsServedFromCacheWitness ==
    \E c1, c2 \in WeatherCalls :
        /\ c1 < c2
        /\ calls[c1].key = calls[c2].key
        /\ calls[c1].created /\ CallState(c1) = "fulfilled"
        /\ calls[c2].seen = "live"
        /\ calls[c2].value = WeatherCallValue(c1)


\* C6: every call that is rejected, the one that created the request and every
\* one that was handed it, is rejected with the translation of the request's
\* failure, which is of one of the three error kinds.
EveryWaiterGetsTranslatedFailure ==
    \A c \in CallIds :
        CallState(c) = "rejected" =>
            /\ CallError(c) = handleError(requests[calls[c].req].error)
            /\ ErrorKind(CallError(c)) \in {"Cancelled", "TransportFailure", "Unexpected"}

\* C7: the call whose signal was triggered, and whose request was rejected by
\* that, is rejected with an error of the kind Cancelled.
AbortIsReportedAsCancelled ==
    \A c \in aborted :
        (calls[c].created /\ CallState(c) = "rejected"
         /\ requests[calls[c].req].error \in AbortRejections) =>
            ErrorKind(CallError(c)) = "Cancelled"

\* C8: the step in which a request is rejected leaves no entry for its key in
\* its pending table, and a call is never handed a request that has been rejected.
FailureFreesThePendingSlot ==
    [][/\ \A t \in RequestIds :
              (requests[t].state = "pending" /\ requests'[t].state = "rejected") =>
                  ~MapHas(PendingOf(requests[t].kind)', requests[t].key)
       /\ Len(calls') > Len(calls) =>
              LET c == calls'[Len(calls')]
              IN  c.req # 0 => requests'[c.req].state # "rejected"]_vars

\* A request was rejected (a failed GET or a triggered signal) and a later call
\* for the same key, made when no call for the key was waiting, created a new one.
FailureFreesThePendingSlotWitness ==
    \E c1, c2 \in CallIds :
        /\ c1 < c2
        /\ calls[c1].key = calls[c2].key
        /\ calls[c1].created /\ CallState(c1) = "rejected"
        /\ calls[c2].overlaps = {}
        /\ calls[c2].created /\ calls[c2].req # calls[c1].req

\* C9: a fetchWeatherData call whose signal was triggered before it settled is
\* rejected, and it is the abort that rejected it.
TriggeredSignalRejectsTheCall ==
    \A c \in aborted \cap WeatherCalls :
        /\ CallState(c) = "rejected"
        /\ requests[calls[c].req].error \in AbortRejections

\* C10: every weather cache entry and every snapshot a fetchWeatherData call
\* returned is the whole snapshot of one fulfilled request for its key, and no
\* part of a rejected request is in the cache.
NoPartialSnapshot ==
    /\ \A k \in DOMAIN weatherCache : WholeSnapshot(weatherCache[k].data, k)
    /\ \A c \in WeatherCalls :
           CallState(c) = "fulfilled" => WholeSnapshot(WeatherCallValue(c), calls[c].key)
    /\ \A t \in RequestIds : \A k \in DOMAIN weatherCache :
           requests[t].state = "rejected" =>
               /\ weatherCache[k].data.currentWeather.req # t
               /\ weatherCache[k].data.forecast.req # t
               /\ weatherCache[k].data.airPollution.req # t

\* One request was rejected after two of its GETs had been answered, and a
\* call has returned the snapshot with which another one filled the cache.
NoPartialSnapshotWitness ==
    /\ \E t \in RequestIds :
           /\ requests[t].kind = "weather" /\ requests[t].state = "rejected"
           /\ requests[t].subs[2] = "discarded"
    /\ \E c \in WeatherCalls :
           /\ CallState(c) = "fulfilled"
           /\ MapHas(weatherCache, calls[c].key)
           /\ weatherCache[calls[c].key].data = WeatherCallValue(c)

\* The call a step has made, if it has made a searchCities call.
MadeCityCall ==
    Len(calls') = Len(calls) + 1 /\ calls'[Len(calls')].kind = "cities"

\* C11: a searchCities call whose trimmed query is shorter than 3 characters
\* returns the empty sequence and leaves the city cache, the city pending table
\* and the requests (the network) as they were; a call with a trimmed query of 3
\* characters or more returns the live cache entry for its key if there is one,
\* otherwise is handed the pending request for its key if there is one, otherwise
\* creates a request and enters it in the pending table.
SearchFloorTouchesNothing ==
    [][MadeCityCall =>
          LET c == calls'[Len(calls')]
              k == <<"c", "i", "t", "i", "e", "s", "-">> \o c.query
          IN  IF Len(Trim(c.query)) < 3 THEN
                  /\ c.req = 0 /\ c.value = <<>>
                  /\ UNCHANGED <<cityCache, pendingCityRequests, requests>>
              ELSE IF MapHas(cityCache, k) /\ now - cityCache[k].timestamp < CACHE_DURATION THEN
                  /\ c.req = 0 /\ c.value = cityCache[k].data
                  /\ UNCHANGED <<cityCache, pendingCityRequests, requests>>
              ELSE IF MapHas(pendingCityRequests, k) THEN
                  /\ c.req = pendingCityRequests[k]
                  /\ UNCHANGED <<cityCache, pendingCityRequests, requests>>
              ELSE
                  /\ c.req = Len(requests) + 1
                  /\ Len(requests') = Len(requests) + 1
                  /\ requests'[c.req].kind = "cities" /\ requests'[c.req].query = c.query
                  /\ requests'[c.req].state = "pending"
                  /\ MapHas(pendingCityRequests', k) /\ pendingCityRequests'[k] = c.req
                  /\ UNCHANGED cityCache]_vars

\* A query of three characters created a request and had its result cached,
\* and a query below the floor was then searched: the entry is still there.
SearchFloorTouchesNothingWitness ==
    \E c1, c2 \in CallIds :
        /\ c1 < c2
        /\ calls[c1].kind = "cities" /\ calls[c1].created /\ CallState(c1) = "fulfilled"
        /\ calls[c2].kind = "cities" /\ Len(Trim(calls[c2].query)) < 3
        /\ calls[c2].req = 0 /\ calls[c2].value = <<>>
        /\ MapHas(cityCache, calls[c1].key)
        /\ cityCache[calls[c1].key].data = CityCallValue(c1)

\* C12: a searchCities call made while an earlier call with the same trimmed
\* query (of at least 3 characters) is waiting for its request uses the key of
\* that call and is handed that request, so that no second request is created.
SameNormalizedQuerySameKey ==
    [][MadeCityCall =>
          LET c == calls'[Len(calls')]
          IN  \A c1 \in CallIds :
                  (/\ calls[c1].kind = "cities"
                   /\ Len(Trim(calls[c1].query)) >= 3
                   /\ Trim(calls[c1].query) = Trim(c.query)
                   /\ calls[c1].req # 0
                   /\ requests[calls[c1].req].state = "pending") =>
                      /\ c.key = calls[c1].key
                      /\ c.req = calls[c1].req
                      /\ UNCHANGED requests]_vars

---------------------------------------------------------------------------
\* The state container.

\* Both coordinates of a call of updateLocation are within the tolerance of the
\* coordinates c.
WithinTolerance(c, lat, lon) ==
    /\ lat - c.lat <= 10 /\ c.lat - lat <= 10
    /\ lon - c.lon <= 10 /\ c.lon - lon <= 10

\* C13: in every state reached by the actions of the store, isManualSelection
\* and geolocationEnabled are not both true.
SelectionFlagsExclusive ==
    ~(store.isManualSelection /\ store.geolocationEnabled)

\* C14: a call of an action other than reset, made when hasInitialLoad is true,
\* leaves it true.
InitialLoadIsMonotonic ==
    [][(store.hasInitialLoad /\ lastAction'.name # "reset") =>
           store'.hasInitialLoad]_vars

\* C15: a call of updateLocation whose latitude and longitude are both at most
\* the tolerance away from the current coordinates leaves the whole state as it
\* was.
UpdateWithinToleranceIsNoOp ==
    [][(lastAction'.name = "updateLocation"
        /\ WithinTolerance(store.coordinates, lastAction'.lat, lastAction'.lon)) =>
           store' = store]_vars

\* updateLocation was called with a latitude exactly the tolerance away from
\* the current one, and the coordinates, the flags and the error are as before.
UpdateWithinToleranceIsNoOpWitness ==
    /\ lastAction.name = "updateLocation"
    /\ lastAction.lat - lastAction.before.coordinates.lat = 10
    /\ lastAction.lon = lastAction.before.coordinates.lon
    /\ store.coordinates = lastAction.before.coordinates
    /\ ~store.isManualSelection /\ store.geolocationEnabled
    /\ store.error # Null

\* C16: a call of updateLocation whose latitude or longitude is more than the
\* tolerance away from the current one sets the coordinates to the arguments,
\* isManualSelection to true, geolocationEnabled to false, hasInitialLoad to
\* true and the error to null.
UpdateBeyondToleranceSetsLocation ==
    [][(lastAction'.name = "updateLocation"
        /\ ~WithinTolerance(store.coordinates, lastAction'.lat, lastAction'.lon)) =>
           /\ store'.coordinates = [lat |-> lastAction'.lat, lon |-> lastAction'.lon]
           /\ store'.isManualSelection = TRUE
           /\ store'.geolocationEnabled = FALSE
           /\ store'.hasInitialLoad = TRUE
           /\ store'.error = Null]_vars

\* updateLocation was called with the current latitude and another longitude
\* while an error was stored, and the coordinates are the arguments.
UpdateBeyondToleranceSetsLocationWitness ==
    /\ lastAction.name = "updateLocation"
    /\ lastAction.lat = lastAction.before.coordinates.lat
    /\ lastAction.lon - lastAction.before.coordinates.lon = 11
    /\ lastAction.before.error # Null
    /\ store.coordinates = [lat |-> lastAction.lat, lon |-> lastAction.lon]
    /\ store.isManualSelection /\ ~store.geolocationEnabled
    /\ store.hasInitialLoad /\ store.error = Null

\* C17: a call of handleLocationPermission sets showLocationDialog to false;
\* with allow it sets geolocationEnabled to true and isManualSelection to false
\* and leaves the coordinates, without it it sets geolocationEnabled to false,
\* isManualSelection to true and the coordinates to the default ones.
PermissionAnswerSetsFlags ==
    [][lastAction'.name = "handleLocationPermission" =>
           /\ store'.showLocationDialog = FALSE
           /\ IF lastAction'.allow THEN
                  /\ store'.geolocationEnabled = TRUE
                  /\ store'.isManualSelection = FALSE
                  /\ store'.coordinates = store.coordinates
              ELSE
                  /\ store'.geolocationEnabled = FALSE
                  /\ store'.isManualSelection = TRUE
                  /\ store'.coordinates = DEFAULT_COORDINATES]_vars

\* The permission was refused while the coordinates were not the default ones:
\* they are now.
PermissionAnswerSetsFlagsWitness ==
    /\ lastAction.name = "handleLocationPermission"
    /\ ~lastAction.allow
    /\ lastAction.before.coordinates # DEFAULT_COORDINATES
    /\ store.coordinates = DEFAULT_COORDINATES
    /\ store.isManualSelection /\ ~store.geolocationEnabled
    /\ ~store.showLocationDialog

\* C18: after a call of reset the state has the twelve data fields, each with
\* its initial value.
ResetRestoresEveryField ==
    lastAction.name = "reset" =>
        /\ DOMAIN store = {"coordinates", "weatherData", "unit", "isLoading", "error",
                           "showLocationDialog", "isManualSelection",
                           "geolocationEnabled", "hasInitialLoad", "searchQuery",
                           "citySuggestions", "isSearching"}
        /\ store.coordinates = DEFAULT_COORDINATES
        /\ store.weatherData = Null
        /\ store.unit = "metric"
        /\ store.isLoading = FALSE
        /\ store.error = Null
        /\ store.showLocationDialog = TRUE
        /\ store.isManualSelection = FALSE
        /\ store.geolocationEnabled = FALSE
        /\ store.hasInitialLoad = FALSE
        /\ store.searchQuery = <<>>
        /\ store.citySuggestions = <<>>
        /\ store.isSearching = FALSE

\* reset was called when the coordinates, the error, the query and the
\* suggestions all differed from their initial values.
ResetRestoresEveryFieldWitness ==
    /\ lastAction.name = "reset"
    /\ lastAction.before.coordinates # DEFAULT_COORDINATES
    /\ lastAction.before.error # Null
    /\ lastAction.before.searchQuery # <<>>
    /\ lastAction.before.citySuggestions # <<>>
    /\ store.coordinates = DEFAULT_COORDINATES
    /\ store.searchQuery = <<>>

\* C19: a call of triggerCurrentLocation sets isManualSelection to false,
\* geolocationEnabled to true, hasInitialLoad to true, the search query and the
\* city suggestions to empty and the error to null.
TriggerSelectsCurrentLocation ==
    [][lastAction'.name = "triggerCurrentLocation" =>
           /\ store'.isManualSelection = FALSE
           /\ store'.geolocationEnabled = TRUE
           /\ store'.hasInitialLoad = TRUE
           /\ store'.searchQuery = <<>>
           /\ store'.citySuggestions = <<>>
           /\ store'.error = Null]_vars

\* triggerCurrentLocation was called while a query, suggestions and an error
\* were stored.
TriggerSelectsCurrentLocationWitness ==
    /\ lastAction.name = "triggerCurrentLocation"
    /\ lastAction.before.searchQuery # <<>>
    /\ lastAction.before.citySuggestions # <<>>
    /\ lastAction.before.error # Null
    /\ store.searchQuery = <<>> /\ store.citySuggestions = <<>> /\ store.error = Null
    /\ store.geolocationEnabled /\ ~store.isManualSelection /\ store.hasInitialLoad

\* C20: no error is stored after a call of updateLocation that has changed the
\* coordinates, after a call of triggerCurrentLocation and after a call of
\* handleLocationPermission.
LocationActionsClearError ==
    [][(\/ lastAction'.name = "updateLocation" /\ store'.coordinates # store.coordinates
        \/ lastAction'.name = "triggerCurrentLocation"
        \/ lastAction'.name = "handleLocationPermission") =>
           store'.error = Null]_vars

---------------------------------------------------------------------------
\* The data access layer: clearing, retries, frames, interleavings.

\* C21: a call of clearCache leaves the weather cache, the city cache, the
\* weather pending table and the city pending table empty, whatever they held
\* and whatever requests are in flight.
ClearCacheEmptiesAllTables ==
    [][clearCache =>
           /\ DOMAIN weatherCache' = {}
           /\ DOMAIN cityCache' = {}
           /\ DOMAIN pendingWeatherRequests' = {}
           /\ DOMAIN pendingCityRequests' = {}]_vars

\* All four tables are empty while a request is in flight: its pending entry
\* was cleared.
ClearCacheEmptiesAllTablesWitness ==
    /\ weatherCache = EmptyMap /\ cityCache = EmptyMap
    /\ pendingWeatherRequests = EmptyMap /\ pendingCityRequests = EmptyMap
    /\ \E t \in RequestIds : requests[t].state = "pending"
    /\ \E t \in RequestIds : requests[t].state = "fulfilled"

\* C22: a call of clearCacheByPattern removes from the weather cache and from
\* the city cache the entries whose key contains the pattern, leaves every
\* other entry as it was and leaves both pending tables as they were.
ClearByPatternRemovesMatchingOnly ==
    [][\A pattern \in Patterns :
           clearCacheByPattern(pattern) =>
               /\ DOMAIN weatherCache' = {k \in DOMAIN weatherCache : ~Includes(k, pattern)}
               /\ DOMAIN cityCache' = {k \in DOMAIN cityCache : ~Includes(k, pattern)}
               /\ \A k \in DOMAIN weatherCache' : weatherCache'[k] = weatherCache[k]
               /\ \A k \in DOMAIN cityCache' : cityCache'[k] = cityCache[k]
               /\ UNCHANGED <<pendingWeatherRequests, pendingCityRequests>>]_vars

\* Two city requests were fulfilled and both still have their pending entry;
\* the result of one is in the cache and the entry of the other, whose key
\* contains a pattern in its middle, is not.
ClearByPatternRemovesMatchingOnlyWitness ==
    \E t1, t2 \in RequestIds :
        /\ requests[t1].kind = "cities" /\ requests[t1].state = "fulfilled"
        /\ requests[t2].kind = "cities" /\ requests[t2].state = "fulfilled"
        /\ MapHas(pendingCityRequests, requests[t1].key)
        /\ MapHas(pendingCityRequests, requests[t2].key)
        /\ MapHas(cityCache, requests[t1].key)
        /\ cityCache[requests[t1].key].data = requests[t1].cities
        /\ ~MapHas(cityCache, requests[t2].key)
        /\ Includes(requests[t2].key, <<"r", " ">>)

\* C23: a call creates at most one request and nothing but a call creates one;
\* a GET of a request that has been answered or given up is not issued again and
\* a rejected request stays as it is; and the step in which a GET of a request
\* fails, or its payload is malformed, rejects the request and with it the call
\* that created it and every call that was handed it.
NeverRetries ==
    [][/\ Len(requests') <= Len(requests) + 1
       /\ Len(requests') > Len(requests) =>
              /\ Len(calls') = Len(calls) + 1
              /\ calls'[Len(calls')].req = Len(requests')
       /\ \A t \in RequestIds :
              /\ \A i \in DOMAIN requests[t].subs :
                     requests[t].subs[i] # "inflight" => requests'[t].subs[i] # "inflight"
              /\ requests[t].state = "rejected" => requests'[t] = requests[t]
              /\ (\/ \E i \in 1..3, error \in NetworkErrors : SubFetchRejected(t, i, error)
                  \/ CitySearchMalformed(t)) =>
                     /\ requests'[t].state = "rejected"
                     /\ \A c \in CallIds : calls[c].req = t => CallState(c)' = "rejected"]_vars

\* A request was rejected after one of its GETs had been answered, and two
\* calls, the one that created it and one that was handed it, are rejected.
NeverRetriesWitness ==
    \E c1, c2 \in CallIds :
        /\ c1 # c2
        /\ calls[c1].req = calls[c2].req /\ calls[c1].req # 0
        /\ calls[c1].created /\ ~calls[c2].created
        /\ CallState(c1) = "rejected" /\ CallState(c2) = "rejected"
        /\ requests[calls[c1].req].subs[1] = "discarded"
        /\ Len(requests) = 1

---------------------------------------------------------------------------
\* The state container: frames.

\* The field each simple setter writes.
SetterField ==
    [setCoordinates |-> "coordinates", setWeatherData |-> "weatherData",
     setLoading |-> "isLoading", setError |-> "error",
     setLocationDialog |-> "showLocationDialog",
     setManualSelection |-> "isManualSelection",
     setGeolocationEnabled |-> "geolocationEnabled",
     setInitialLoad |-> "hasInitialLoad", setSearchQuery |-> "searchQuery",
     setCitySuggestions |-> "citySuggestions", setSearching |-> "isSearching"]

\* C24: a call of a simple setter leaves the state with the argument in the
\* field of the setter and every other field as it was.
SettersAssignOwnFieldOnly ==
    [][/\ lastAction'.name \in DOMAIN SetterField =>
              /\ DOMAIN store' = DOMAIN store
              /\ \A f \in DOMAIN store \ {SetterField[lastAction'.name]} :
                     store'[f] = store[f]
       /\ lastAction'.name = "setCoordinates" =>
              \A coords \in StoreCoordinates :
                  setCoordinates(coords) => store' = [store EXCEPT !.coordinates = coords]
       /\ lastAction'.name = "setWeatherData" =>
              \A data \in WeatherDataValues :
                  setWeatherData(data) => store' = [store EXCEPT !.weatherData = data]
       /\ lastAction'.name = "setLoading" =>
              \A loading \in BOOLEAN :
                  setLoading(loading) => store' = [store EXCEPT !.isLoading = loading]
       /\ lastAction'.name = "setError" =>
              \A error \in ErrorValues :
                  setError(error) => store' = [store EXCEPT !.error = error]
       /\ lastAction'.name = "setLocationDialog" =>
              \A show \in BOOLEAN :
                  setLocationDialog(show) => store' = [store EXCEPT !.showLocationDialog = show]
       /\ lastAction'.name = "setManualSelection" =>
              \A manual \in BOOLEAN :
                  setManualSelection(manual) => store' = [store EXCEPT !.isManualSelection = manual]
       /\ lastAction'.name = "setGeolocationEnabled" =>
              \A enabled \in BOOLEAN :
                  setGeolocationEnabled(enabled) => store' = [store EXCEPT !.geolocationEnabled = enabled]
       /\ lastAction'.name = "setInitialLoad" =>
              \A loaded \in BOOLEAN :
                  setInitialLoad(loaded) => store' = [store EXCEPT !.hasInitialLoad = loaded]
       /\ lastAction'.name = "setSearchQuery" =>
              \A query \in SearchQueryValues :
                  setSearchQuery(query) => store' = [store EXCEPT !.searchQuery = query]
       /\ lastAction'.name = "setCitySuggestions" =>
              \A suggestions \in CitySuggestionValues :
                  setCitySuggestions(suggestions) => store' = [store EXCEPT !.citySuggestions = suggestions]
       /\ lastAction'.name = "setSearching" =>
              \A searching \in BOOLEAN :
                  setSearching(searching) => store' = [store EXCEPT !.isSearching = searching]]_vars

\* setSearchQuery has replaced the query while suggestions, an error, weather
\* data and other coordinates than the default ones were stored: they still are.
SettersAssignOwnFieldOnlyWitness ==
    /\ lastAction.name = "setSearchQuery"
    /\ lastAction.before.searchQuery # store.searchQuery
    /\ store.citySuggestions # <<>> /\ store.citySuggestions = lastAction.before.citySuggestions
    /\ store.error # Null /\ store.error = lastAction.before.error
    /\ store.coordinates # DEFAULT_COORDINATES
    /\ store.coordinates = lastAction.before.coordinates
    /\ store.weatherData # Null
    /\ store.isManualSelection /\ store.geolocationEnabled

\* C29: a call of updateLocation, triggerCurrentLocation or
\* handleLocationPermission leaves weatherData, unit, isLoading and isSearching
\* as they were.
LocationActionsKeepWeatherData ==
    [][lastAction'.name \in {"updateLocation", "triggerCurrentLocation",
                             "handleLocationPermission"} =>
           /\ store'.weatherData = store.weatherData
           /\ store'.unit = store.unit
           /\ store'.isLoading = store.isLoading
           /\ store'.isSearching = store.isSearching]_vars

\* updateLocation has changed the coordinates while weather data were stored
\* and the loading and the searching flag were set: they still are.
LocationActionsKeepWeatherDataWitness ==
    /\ lastAction.name = "updateLocation"
    /\ store.coordinates # lastAction.before.coordinates
    /\ store.coordinates = [lat |-> lastAction.lat, lon |-> lastAction.lon]
    /\ store.weatherData # Null
    /\ store.isLoading /\ store.isSearching
    /\ store.unit = "metric"

---------------------------------------------------------------------------
\* The data access layer: frames and interleavings.

\* The keys a step of fetchWeatherData ("weather") or of searchCities
\* ("cities") works on: the key of the call it makes and the keys of the
\* requests it advances, fulfils or rejects.
KeysWorkedOn(kind) ==
    {requests[t].key : t \in {u \in RequestIds : requests[u].kind = kind
                                                 /\ requests'[u] # requests[u]}}
    \cup (IF Len(calls') > Len(calls) /\ calls'[Len(calls')].kind = kind
          THEN {calls'[Len(calls')].key} ELSE {})

\* The two maps are the same but for the given keys.
SameBut(m1, m2, keys) ==
    /\ DOMAIN m1 \ keys = DOMAIN m2 \ keys
    /\ \A k \in DOMAIN m1 \ keys : m1[k] = m2[k]

\* C25: a step of fetchWeatherData (the call, the answer to one of its GETs, its
\* fulfilment, its rejection) changes the weather cache and the weather pending
\* table at its own key only and leaves the city cache and the city pending
\* table as they were; and a step of searchCities likewise, with the parts of
\* the two kinds exchanged.
CallsTouchOwnKeyOnly ==
    [][/\ KeysWorkedOn("weather") # {} =>
              /\ SameBut(weatherCache, weatherCache', KeysWorkedOn("weather"))
              /\ SameBut(pendingWeatherRequests, pendingWeatherRequests',
                         KeysWorkedOn("weather"))
              /\ UNCHANGED <<cityCache, pendingCityRequests>>
       /\ KeysWorkedOn("cities") # {} =>
              /\ SameBut(cityCache, cityCache', KeysWorkedOn("cities"))
              /\ SameBut(pendingCityRequests, pendingCityRequests',
                         KeysWorkedOn("cities"))
              /\ UNCHANGED <<weatherCache, pendingWeatherRequests>>]_vars

\* Of two weather requests for different coordinates one was fulfilled and
\* the other one then rejected: the cache entry and the pending entry of the
\* first are there, and only the pending entry of the second is gone.
CallsTouchOwnKeyOnlyWitness ==
    \E t1, t2 \in RequestIds :
        /\ t1 < t2
        /\ requests[t1].kind = "weather" /\ requests[t2].kind = "weather"
        /\ requests[t1].key # requests[t2].key
        /\ requests[t1].state = "fulfilled" /\ requests[t2].state = "rejected"
        /\ MapHas(weatherCache, requests[t1].key)
        /\ weatherCache[requests[t1].key].data = requests[t1].data
        /\ MapHas(pendingWeatherRequests, requests[t1].key)
        /\ ~MapHas(pendingWeatherRequests, requests[t2].key)

\* C26: the step in which a request is rejected leaves the pending entry of
\* every other request that is in flight and has its entry in the table.
FailureRemovesOwnEntryOnly ==
    [][\A t \in RequestIds :
          (requests[t].state = "pending" /\ requests'[t].state = "rejected") =>
              \A u \in RequestIds \ {t} :
                  (/\ requests[u].state = "pending"
                   /\ MapHas(PendingOf(requests[u].kind), requests[u].key)
                   /\ PendingOf(requests[u].kind)[requests[u].key] = u) =>
                      /\ MapHas(PendingOf(requests[u].kind)', requests[u].key)
                      /\ PendingOf(requests[u].kind)'[requests[u].key] = u]_vars

\* C27: a request that was in flight when clearCache removed the entries of
\* its key does not write its result into the cache when it is fulfilled.  The
\* request is the only one there has been for its key and it is pending, so
\* that its pending entry is missing only when clearCache has removed it.
InvalidationNotUndone ==
    [][\A t \in RequestIds :
          (/\ requests[t].state = "pending" /\ requests'[t].state = "fulfilled"
           /\ \A u \in RequestIds \ {t} : requests[u].key # requests[t].key
           /\ ~MapHas(PendingOf(requests[t].kind), requests[t].key)) =>
              ~(/\ MapHas(CacheOf(requests[t].kind)', requests[t].key)
                /\ CacheOf(requests[t].kind)'[requests[t].key].data =
                       (IF requests[t].kind = "weather" THEN requests'[t].data
                        ELSE requests'[t].cities))]_vars

\* The call has been made and the promise it returned has settled.
Settled(c) == c \in CallIds /\ CallState(c) # "pending"

\* C28: when every GET in flight is eventually answered or fails, every call
\* that has been made and has not settled eventually settles, the calls that
\* were handed a pending request and the calls whose entries were cleared
\* included.
EveryCallSettles ==
    \A c \in 1..MaxCalls : (c \in CallIds /\ ~Settled(c)) ~> Settled(c)

\* A call that was handed the request of another one has settled although
\* clearCache had removed the pending entry while the request was in flight.
EveryCallSettlesWitness ==
    \E c1, c2 \in CallIds :
        /\ c1 # c2 /\ calls[c1].req = calls[c2].req /\ calls[c1].req # 0
        /\ ~calls[c2].created
        /\ Settled(c1) /\ Settled(c2)
        /\ CallState(c2) = "fulfilled"
        /\ ~MapHas(PendingOf(calls[c2].kind), calls[c2].key)

====
